---------------------------- MODULE Spec2Model ----------------------------
(***************************************************************************)
(* A model of the EJU quiz application: the question table of             *)
(* questions.db and the HTTP handlers of the two applications of the      *)
(* repository, src/eju_app/main.py (FastAPI) and src/eju_app/app.py       *)
(* (Flask).                                                               *)
(*                                                                         *)
(* Text is a sequence of characters; a character is a one-token string.   *)
(* CJK characters are written as their code point token ("U65E5").        *)
(***************************************************************************)
EXTENDS Integers, Sequences, FiniteSets, TLC

VARIABLES
    impl,       \* which application serves the database: "main" or "app"
    questions,  \* the questions table: id -> row
    seq,        \* sqlite_sequence.seq of the AUTOINCREMENT key
    assigned,   \* history: the ids handed out by INSERT, in order
    pending,    \* the request in flight (its body has been read)
    response,   \* the last response sent
    conns,      \* the connections of the request in flight or just answered
    workers,    \* concurrent runs of write handlers, each at its own step
    updates     \* history: the workers whose UPDATE was applied, in order

vars == <<impl, questions, seq, assigned, pending, response, conns, workers, updates>>

\* The state of the concurrent write handlers.
race_vars == <<workers, updates>>

\* ------------------------------------------------------------------ bounds

\* The number of INSERTs a run performs (the largest id ever assigned).
MaxId == 3

\* The longest list handed to build_tag_options.
MaxTags == 3

\* ------------------------------------------------------------------- text

Whitespace == {" ", "\t"}

AsciiLower == <<"a", "b", "c", "d", "e", "f", "g", "h", "i", "j", "k", "l", "m",
                "n", "o", "p", "q", "r", "s", "t", "u", "v", "w", "x", "y", "z">>

AsciiUpper == <<"A", "B", "C", "D", "E", "F", "G", "H", "I", "J", "K", "L", "M",
                "N", "O", "P", "Q", "R", "S", "T", "U", "V", "W", "X", "Y", "Z">>

Range(s) == {s[i] : i \in DOMAIN s}

IndexIn(c, s) == CHOOSE i \in DOMAIN s : s[i] = c

\* str.upper() / sqlite lower() on one character of the model's alphabet.
UpperChar(c) == IF c \in Range(AsciiLower) THEN AsciiUpper[IndexIn(c, AsciiLower)] ELSE c

LowerChar(c) == IF c \in Range(AsciiUpper) THEN AsciiLower[IndexIn(c, AsciiUpper)] ELSE c

upper(s) == [i \in DOMAIN s |-> UpperChar(s[i])]

lower(s) == [i \in DOMAIN s |-> LowerChar(s[i])]

\* The Unicode code point of a character: Python compares str by code point.
CodePoint(c) ==
    CASE c = "\t" -> 9
      [] c = " " -> 32
      [] c = "%" -> 37
      [] c = "," -> 44
      [] c = "-" -> 45
      [] c = "/" -> 47
      [] c \in {"0", "1", "2", "3", "4", "5", "6", "7", "8", "9"} ->
            48 + IndexIn(c, <<"0", "1", "2", "3", "4", "5", "6", "7", "8", "9">>) - 1
      [] c \in Range(AsciiUpper) -> 64 + IndexIn(c, AsciiUpper)
      [] c = "_" -> 95
      [] c \in Range(AsciiLower) -> 96 + IndexIn(c, AsciiLower)
      [] c = "U4EE3" -> 20003
      [] c = "U4F55" -> 20309
      [] c = "U51E0" -> 20960
      [] c = "U5206" -> 20998
      [] c = "U5408" -> 21512
      [] c = "U5B66" -> 23398
      [] c = "U6570" -> 25968
      [] c = "U65E5" -> 26085
      [] c = "U672A" -> 26410
      [] c = "U7406" -> 29702
      [] c = "U76EE" -> 30446
      [] c = "U79D1" -> 31185
      [] c = "U7C7B" -> 31867
      [] c = "U7EFC" -> 32508
      [] c = "U8BED" -> 35821

RECURSIVE StrLess(_, _)
\* a < b on Python str: lexicographic by code point, a proper prefix first.
StrLess(a, b) ==
    IF b = <<>> THEN FALSE
    ELSE IF a = <<>> THEN TRUE
    ELSE IF Head(a) = Head(b) THEN StrLess(Tail(a), Tail(b))
    ELSE CodePoint(Head(a)) < CodePoint(Head(b))

RECURSIVE lstrip(_)
lstrip(s) == IF s # <<>> /\ Head(s) \in Whitespace THEN lstrip(Tail(s)) ELSE s

RECURSIVE rstrip(_)
rstrip(s) ==
    IF s # <<>> /\ s[Len(s)] \in Whitespace THEN rstrip(SubSeq(s, 1, Len(s) - 1)) ELSE s

\* str.strip()
strip(s) == rstrip(lstrip(s))

RECURSIVE split(_, _)
\* str.split(sep) for a one-character separator: always at least one piece.
split(s, sep) ==
    IF sep \notin Range(s) THEN <<s>>
    ELSE LET i == CHOOSE k \in DOMAIN s : s[k] = sep /\ \A j \in 1..(k - 1) : s[j] # sep
         IN  <<SubSeq(s, 1, i - 1)>> \o split(SubSeq(s, i + 1, Len(s)), sep)

RECURSIVE join(_, _)
\* sep.join(parts)
join(parts, sep) ==
    IF parts = <<>> THEN <<>>
    ELSE IF Len(parts) = 1 THEN parts[1]
    ELSE parts[1] \o sep \o join(Tail(parts), sep)

\* key.startswith(prefix)
startswith(s, prefix) == Len(s) >= Len(prefix) /\ SubSeq(s, 1, Len(prefix)) = prefix

RECURSIVE SortedSeq(_)
\* sorted(set): the elements in ascending str order.
SortedSeq(S) ==
    IF S = {} THEN <<>>
    ELSE LET m == CHOOSE x \in S : \A y \in S \ {x} : StrLess(x, y)
         IN  <<m>> \o SortedSeq(S \ {m})

\* SQL NULL in a TEXT column (no text equals it).
NULL == <<"NULL">>

\* ----------------------------------------------------------------- tags

\* parse_tags: split on ",", trim, drop the blanks.
parse_tags(tags_value) ==
    IF tags_value = NULL \/ tags_value = <<>> THEN <<>>
    ELSE LET pieces == split(tags_value, ",")
             cleaned == [i \in DOMAIN pieces |-> strip(pieces[i])]
         IN  SelectSeq(cleaned, LAMBDA t : t # <<>>)

RECURSIVE Dedup(_, _)
\* The loop of normalize_tags_string: keep a tag the first time it is seen.
Dedup(tags, seen) ==
    IF tags = <<>> THEN <<>>
    ELSE IF Head(tags) \in seen THEN Dedup(Tail(tags), seen)
    ELSE <<Head(tags)>> \o Dedup(Tail(tags), seen \cup {Head(tags)})

\* normalize_tags_string without its `seen` set: repeated tags are kept.
normalize_tags_keep_duplicates(tags_value) == join(parse_tags(tags_value), <<",", " ">>)

normalize_tags_string(tags_value) == join(Dedup(parse_tags(tags_value), {}), <<",", " ">>)

\* The parts of one tag path: split on "/", trim, drop the blanks.
TagParts(tag) ==
    LET pieces == split(tag, "/")
        cleaned == [i \in DOMAIN pieces |-> strip(pieces[i])]
    IN  SelectSeq(cleaned, LAMBDA p : p # <<>>)

\* build_tag_tree: the nested dict, held as the set of the paths of its nodes
\* (node.setdefault(part, {}) along a tag adds every prefix of its parts).
build_tag_tree(tags) ==
    UNION {{SubSeq(TagParts(tags[i]), 1, k) : k \in 1..Len(TagParts(tags[i]))} : i \in DOMAIN tags}

\* node.keys() of the node reached by `path` in `tree`.
NodeKeys(tree, path) ==
    {p[Len(p)] : p \in {q \in tree : Len(q) = Len(path) + 1 /\ SubSeq(q, 1, Len(path)) = path}}

RECURSIVE walk(_, _, _, _)
RECURSIVE walk_keys(_, _, _, _, _)
\* The body of walk's for loop over the sorted keys.
walk_keys(tree, path, prefix, level, keys) ==
    IF keys = <<>> THEN <<>>
    ELSE LET key == Head(keys)
             value == IF prefix # <<>> THEN prefix \o <<"/">> \o key ELSE key
         IN  <<[value |-> value, label |-> key, level |-> level]>>
             \o walk(tree, Append(path, key), value, level + 1)
             \o walk_keys(tree, path, prefix, level, Tail(keys))

\* walk iterating the keys in descending order instead of sorted().
walk_descending(tree, path, prefix, level) ==
    LET keys == SortedSeq(NodeKeys(tree, path))
    IN  walk_keys(tree, path, prefix, level, [i \in DOMAIN keys |-> keys[Len(keys) + 1 - i]])

walk(tree, path, prefix, level) ==
    walk_keys(tree, path, prefix, level, SortedSeq(NodeKeys(tree, path)))

build_tag_options(tags) == walk(build_tag_tree(tags), <<>>, <<>>, 0)


\* ------------------------------------------------------------ constants

\* DEFAULT_SECTIONS (main.py, line 20), character by character.
DEFAULT_SECTIONS ==
    << <<"U65E5", "U8BED">>, <<"U7EFC", "U5408", "U79D1", "U76EE">>,
       <<"U7406", "U79D1">>, <<"U672A", "U5206", "U7C7B">> >>

\* The fallback section of enrich_question_row, the last default.
UNCLASSIFIED == <<"U672A", "U5206", "U7C7B">>

\* {choice[0] for choice in CORRECT_OPTION_CHOICES}
CORRECT_OPTION_CHOICES == {<<"A">>, <<"B">>, <<"C">>, <<"D">>}

\* Python None (answers.get of a missing key).
None == <<"None">>

\* The field-name prefix of a quiz answer: "question-".
QUESTION_PREFIX == <<"q", "u", "e", "s", "t", "i", "o", "n", "-">>

\* ------------------------------------------------------------- sqlite

Max(S) == CHOOSE x \in S : \A y \in S : y <= x

\* Without AUTOINCREMENT a rowid is one more than the largest rowid in the table.
NextRowIdNoAutoincrement(table, sequence) ==
    IF DOMAIN table = {} THEN 1 ELSE Max(DOMAIN table) + 1

\* id INTEGER PRIMARY KEY AUTOINCREMENT: one more than the largest rowid that
\* ever existed in the table (sqlite_sequence remembers it across deletes).
NextRowId(table, sequence) == Max(DOMAIN table \cup {sequence}) + 1

RECURSIVE LikeMatch(_, _)
\* text LIKE pattern: "%" any run of characters, "_" any one character, any
\* other character itself, ASCII letters without regard to case. No ESCAPE.
LikeMatch(pattern, text) ==
    IF pattern = <<>> THEN text = <<>>
    ELSE IF Head(pattern) = "%"
         THEN LikeMatch(Tail(pattern), text)
              \/ (text # <<>> /\ LikeMatch(pattern, Tail(text)))
    ELSE IF Head(pattern) = "_"
         THEN text # <<>> /\ LikeMatch(Tail(pattern), Tail(text))
    ELSE text # <<>>
         /\ UpperChar(Head(pattern)) = UpperChar(Head(text))
         /\ LikeMatch(Tail(pattern), Tail(text))

\* column LIKE ? in a WHERE clause: NULL LIKE x is NULL, which selects nothing.
SqlLike(column, pattern) == column # NULL /\ LikeMatch(pattern, column)

\* lower(column): NULL stays NULL.
SqlLower(column) == IF column = NULL THEN NULL ELSE lower(column)

\* column = ? in a WHERE clause.
SqlEq(column, value) == column # NULL /\ column = value

Digits == <<"0", "1", "2", "3", "4", "5", "6", "7", "8", "9">>

RECURSIVE DigitsValue(_, _)
DigitsValue(s, acc) ==
    IF s = <<>> THEN acc ELSE DigitsValue(Tail(s), acc * 10 + IndexIn(Head(s), Digits) - 1)

\* The integer a TEXT parameter is compared as with the INTEGER id column
\* (NUMERIC affinity: a decimal literal, blanks around it allowed), or -1 when
\* the text is no number and equals no id.
SqlNumeric(text) ==
    LET t == strip(text)
    IN  IF t # <<>> /\ Range(t) \subseteq Range(Digits) THEN DigitsValue(t, 0) ELSE -1

RECURSIVE str(_)
\* str(n) of a non-negative int.
str(n) == IF n < 10 THEN <<Digits[n + 1]>> ELSE str(n \div 10) \o <<Digits[(n % 10) + 1]>>

\* The rows of `table` that satisfy `keep`, ORDER BY id.
RECURSIVE RowsById(_, _)
RowsById(table, ids) ==
    IF ids = {} THEN <<>>
    ELSE LET m == CHOOSE x \in ids : \A y \in ids : x <= y
         IN  <<table[m]>> \o RowsById(table, ids \ {m})

\* ------------------------------------------------------------ requests

FormFields == {"question", "option_a", "option_b", "option_c", "option_d",
               "correct_option", "tags", "section"}

EmptyForm == [f \in FormFields |-> <<>>]

NoRequest ==
    [route |-> "none", qid |-> 0, form |-> EmptyForm, body |-> <<>>,
     tag |-> <<>>, section |-> <<>>, search |-> <<>>, tags |-> <<>>]

NoResponse ==
    [route |-> "none", status |-> 0, template |-> "", location |-> "", category |-> "",
     form_errors |-> <<>>, questions |-> <<>>, selected_tag |-> <<>>,
     selected_section |-> <<>>, search |-> <<>>, tag_options |-> <<>>, tags |-> <<>>,
     sections |-> <<>>, total |-> 0, correct |-> 0, score |-> 0, details |-> <<>>,
     question_id |-> 0]

\* No connection has been opened.
NoConns == [opened |-> 0, closed |-> 0]

\* RedirectResponse(url, 303) / redirect(url_for(...)) with the feedback it carries.
Redirect(route, location, category) ==
    [NoResponse EXCEPT !.route = route, !.status = 303, !.location = location,
                       !.category = category]

\* ---------------------------------------------------------- validation

\* parse_form_body: every value trimmed (a field the body lacks reads as "").
parse_form_body(form) == [f \in FormFields |-> strip(form[f])]

\* validate_question_payload without its check of the section.
validate_without_section_check(data) ==
    LET question == strip(data.question)
        option_a == strip(data.option_a)
        option_b == strip(data.option_b)
        option_c == strip(data.option_c)
        option_d == strip(data.option_d)
        correct_option == upper(strip(data.correct_option))
        section == strip(data.section)
        errors ==
            (IF question = <<>> THEN <<"question">> ELSE <<>>)
            \o (IF option_a = <<>> \/ option_b = <<>> \/ option_c = <<>> \/ option_d = <<>>
                THEN <<"options">> ELSE <<>>)
            \o (IF correct_option \notin CORRECT_OPTION_CHOICES
                THEN <<"correct_option">> ELSE <<>>)
    IN  [errors |-> errors,
         payload |-> [question |-> question, option_a |-> option_a, option_b |-> option_b,
                      option_c |-> option_c, option_d |-> option_d,
                      correct_option |-> correct_option, section |-> section,
                      tags |-> normalize_tags_string(data.tags)]]

\* validate_question_payload: (errors, payload).
validate_question_payload(data) ==
    LET question == strip(data.question)
        option_a == strip(data.option_a)
        option_b == strip(data.option_b)
        option_c == strip(data.option_c)
        option_d == strip(data.option_d)
        correct_option == upper(strip(data.correct_option))
        section == strip(data.section)
        errors ==
            (IF question = <<>> THEN <<"question">> ELSE <<>>)
            \o (IF option_a = <<>> \/ option_b = <<>> \/ option_c = <<>> \/ option_d = <<>>
                THEN <<"options">> ELSE <<>>)
            \o (IF correct_option \notin CORRECT_OPTION_CHOICES
                THEN <<"correct_option">> ELSE <<>>)
            \o (IF section = <<>> THEN <<"section">> ELSE <<>>)
    IN  [errors |-> errors,
         payload |-> [question |-> question, option_a |-> option_a, option_b |-> option_b,
                      option_c |-> option_c, option_d |-> option_d,
                      correct_option |-> correct_option, section |-> section,
                      tags |-> normalize_tags_string(data.tags)]]

\* The columns an INSERT / UPDATE of main.py binds for `payload`.
MainColumns(payload) ==
    [question |-> payload.question, option_a |-> payload.option_a,
     option_b |-> payload.option_b, option_c |-> payload.option_c,
     option_d |-> payload.option_d, correct_option |-> payload.correct_option,
     tags |-> payload.tags, section |-> payload.section]

\* app.py reads each field with request.form.get(name, '').strip(); its table
\* has no section column.
FlaskFields(form) ==
    [question |-> strip(form.question), option_a |-> strip(form.option_a),
     option_b |-> strip(form.option_b), option_c |-> strip(form.option_c),
     option_d |-> strip(form.option_d), correct_option |-> strip(form.correct_option),
     tags |-> strip(form.tags)]

\* app.py: question and option_a and ... and correct_option
FlaskComplete(f) ==
    /\ f.question # <<>>
    /\ f.option_a # <<>> /\ f.option_b # <<>> /\ f.option_c # <<>> /\ f.option_d # <<>>
    /\ f.correct_option # <<>>

\* The columns an INSERT / UPDATE of app.py binds (its table has no section).
FlaskColumns(f) ==
    [question |-> f.question, option_a |-> f.option_a, option_b |-> f.option_b,
     option_c |-> f.option_c, option_d |-> f.option_d, correct_option |-> f.correct_option,
     tags |-> f.tags, section |-> NULL]

\* ------------------------------------------------------------- dicts

\* A Python dict, held as the sequence of its <<key, value>> items in
\* insertion order.
RECURSIVE DictPut(_, _, _)
\* d[k] = v
DictPut(d, k, v) ==
    IF d = <<>> THEN <<<<k, v>>>>
    ELSE IF Head(d)[1] = k THEN <<<<k, v>>>> \o Tail(d)
    ELSE <<Head(d)>> \o DictPut(Tail(d), k, v)

DictKeys(d) == {d[i][1] : i \in DOMAIN d}

\* d.get(k): None when the key is missing.
DictGet(d, k) ==
    IF k \in DictKeys(d) THEN d[CHOOSE i \in DOMAIN d : d[i][1] = k][2] ELSE None

RECURSIVE FirstValues(_, _)
\* The first value of every field of a form body, in field order.
FirstValues(body, seen) ==
    IF body = <<>> THEN <<>>
    ELSE IF Head(body)[1] \in seen THEN FirstValues(Tail(body), seen)
    ELSE <<Head(body)>> \o FirstValues(Tail(body), seen \cup {Head(body)[1]})

\* urllib.parse.parse_qs(body): blank values are dropped (keep_blank_values is
\* off); values[0] of what is left.
parse_qs(body) == FirstValues(SelectSeq(body, LAMBDA kv : kv[2] # <<>>), {})

\* request.form.items() of Flask: blank values are kept.
FlaskFormItems(body) == FirstValues(body, {})

\* --------------------------------------------------------------- lists

\* The WHERE clause main.py builds for GET /quiz and GET /admin.
MainWhere(row, section_filter, tag_filter, search_filter) ==
    /\ section_filter # <<>> => SqlEq(row.section, section_filter)
    /\ tag_filter # <<>> =>
          SqlLike(SqlLower(row.tags), lower(<<"%">> \o tag_filter \o <<"%">>))
    /\ search_filter # <<>> =>
          LET like_value == <<"%">> \o search_filter \o <<"%">>
          IN  \/ SqlLike(row.question, like_value)
              \/ SqlLike(row.option_a, like_value)
              \/ SqlLike(row.option_b, like_value)
              \/ SqlLike(row.option_c, like_value)
              \/ SqlLike(row.option_d, like_value)
              \/ SqlLike(row.tags, like_value)

\* SELECT * FROM questions [WHERE ...] ORDER BY id
MainSelect(table, section_filter, tag_filter, search_filter) ==
    RowsById(table, {id \in DOMAIN table :
                        MainWhere(table[id], section_filter, tag_filter, search_filter)})

\* enrich_question_row
enrich_question_row(row) ==
    [id |-> row.id, question |-> row.question, option_a |-> row.option_a,
     option_b |-> row.option_b, option_c |-> row.option_c, option_d |-> row.option_d,
     correct_option |-> row.correct_option, tags |-> row.tags,
     section |-> IF row.section = NULL \/ row.section = <<>> THEN UNCLASSIFIED
                 ELSE row.section,
     tag_list |-> parse_tags(row.tags)]

RECURSIVE Concat(_)
Concat(ss) == IF ss = <<>> THEN <<>> ELSE Head(ss) \o Concat(Tail(ss))

\* sorted(set(tags_all)) over SELECT tags FROM questions [WHERE section = ?]
MainTagsUnique(table, section_filter) ==
    LET rows == RowsById(table, {id \in DOMAIN table :
                        section_filter # <<>> => SqlEq(table[id].section, section_filter)})
        tags_all == Concat([i \in DOMAIN rows |-> parse_tags(rows[i].tags)])
    IN  SortedSeq(Range(tags_all))

\* The count of gather_sections_metadata for every section name: the defaults,
\* then the other names in sorted order (the top tags are not modelled).
gather_sections_metadata(table) ==
    LET NameOf(row) ==
            LET raw == IF row.section = NULL \/ row.section = <<>> THEN UNCLASSIFIED
                       ELSE row.section
            IN  IF strip(raw) = <<>> THEN UNCLASSIFIED ELSE strip(raw)
        Count(name) == Cardinality({id \in DOMAIN table : NameOf(table[id]) = name})
        others == SortedSeq({NameOf(table[id]) : id \in DOMAIN table} \ Range(DEFAULT_SECTIONS))
        names == DEFAULT_SECTIONS \o others
    IN  [i \in DOMAIN names |-> [name |-> names[i], count |-> Count(names[i])]]

\* The WHERE clause and ORDER BY of app.py's GET /quiz.
FlaskSelect(table, tag_filter) ==
    RowsById(table, {id \in DOMAIN table :
                        tag_filter # <<>> =>
                            SqlLike(SqlLower(table[id].tags),
                                    lower(<<"%">> \o tag_filter \o <<"%">>))})

\* app.py's tags_unique: split on ",", trim, drop blanks, sorted(set(...)).
FlaskTagsUnique(table) ==
    LET rows == RowsById(table, DOMAIN table)
        tags_all == Concat([i \in DOMAIN rows |-> parse_tags(rows[i].tags)])
    IN  SortedSeq(Range(tags_all))

\* ------------------------------------------------------------- scoring

\* The score cut to two decimals instead of rounded.
score_percent_truncated(correct, total) ==
    IF total = 0 THEN 0 ELSE (correct * 10000) \div total

\* round(correct / total * 100.0, 2) in hundredths of a percent: the nearest
\* hundredth, a tie to the even one (no tie exists for total < 32).
score_percent(correct, total) ==
    IF total = 0 THEN 0
    ELSE LET n == correct * 10000
             q == n \div total
             r == n % total
         IN  IF 2 * r < total THEN q
             ELSE IF 2 * r > total THEN q + 1
             ELSE IF q % 2 = 0 THEN q ELSE q + 1

RECURSIVE MainAnswers(_, _)
\* The loop of submit_quiz over parsed.items(): qid = key.split("-", 1)[1].
MainAnswers(items, answers) ==
    IF items = <<>> THEN answers
    ELSE LET key == Head(items)[1]
             value == Head(items)[2]
         IN  IF startswith(key, QUESTION_PREFIX) /\ value # <<>>
             THEN MainAnswers(Tail(items),
                     DictPut(answers,
                             SubSeq(key, Len(split(key, "-")[1]) + 2, Len(key)), value))
             ELSE MainAnswers(Tail(items), answers)

RECURSIVE FlaskAnswers(_, _)
\* app.py's dict comprehension: key.split('-')[1] of every question- field.
FlaskAnswers(items, answers) ==
    IF items = <<>> THEN answers
    ELSE LET key == Head(items)[1]
             value == Head(items)[2]
         IN  IF startswith(key, QUESTION_PREFIX)
             THEN FlaskAnswers(Tail(items), DictPut(answers, split(key, "-")[2], value))
             ELSE FlaskAnswers(Tail(items), answers)

\* SELECT ... FROM questions WHERE id IN (?, ...) with the keys of answers.
SelectIdIn(table, answers) ==
    RowsById(table, {id \in DOMAIN table : \E k \in DictKeys(answers) : SqlNumeric(k) = id})

\* The grading loop over result_set.
Details(result_set, answers) ==
    [i \in DOMAIN result_set |->
        LET qid == str(result_set[i].id)
            user_answer == DictGet(answers, qid)
        IN  [id |-> qid, user_answer |-> user_answer,
             correct_answer |-> result_set[i].correct_option,
             is_correct |-> (user_answer = result_set[i].correct_option)]]

\* The result page of a grading run.
Graded(table, answers) ==
    LET result_set == SelectIdIn(table, answers)
        details == Details(result_set, answers)
        total == Len(result_set)
        correct == Cardinality({i \in DOMAIN details : details[i].is_correct})
    IN  [NoResponse EXCEPT !.route = "POST /quiz", !.status = 200, !.template = "result.html",
                           !.total = total, !.correct = correct,
                           !.score = score_percent(correct, total), !.details = details]

\* -------------------------------------------------------------- inputs

\* The ids a request may name: every id a run assigns and one it never does.
QuestionIds == 1..(MaxId + 1)

\* The raw values of the admin form's fields.
QuestionTexts == {<<" ">>, <<" ", "q">>}

OptionTexts == {<<>>, <<"x">>}

CorrectTexts == {<<>>, <<"b">>, <<"E">>}

SectionTexts == {<<>>, <<"s", " ">>}

TagsTexts == {<<>>, <<" ", "t", ",", ",", "t", ",", " ", "u">>}

Forms ==
    [question : QuestionTexts, option_a : OptionTexts, option_b : OptionTexts,
     option_c : OptionTexts, option_d : OptionTexts, correct_option : CorrectTexts,
     tags : TagsTexts, section : SectionTexts]

\* The filters of the list pages.
TagFilters == {<<>>, <<"T">>, <<"_">>, <<"%">>, <<"z">>}

SectionFilters == {<<>>, <<"s">>}

SearchFilters == {<<>>, <<"u">>}

\* The fields of a quiz submission and the values each may carry.
QuizKeys ==
    << QUESTION_PREFIX \o <<"1">>, QUESTION_PREFIX \o <<"0", "1">>,
       QUESTION_PREFIX \o <<"2">>, QUESTION_PREFIX \o <<"3">> >>

QuizValues == {<<>>, <<"A">>, <<"B">>}

RECURSIVE QuizBodiesFrom(_)
\* Every body over the fields QuizKeys[i..]: each field absent or with a value.
QuizBodiesFrom(i) ==
    IF i > Len(QuizKeys) THEN {<<>>}
    ELSE LET rest == QuizBodiesFrom(i + 1)
         IN  rest \cup {<<<<QuizKeys[i], v>>>> \o b : v \in QuizValues, b \in rest}

QuizBodies == QuizBodiesFrom(1)

Req(route) == [NoRequest EXCEPT !.route = route]

WriteRequests ==
    {[Req("POST /admin/add") EXCEPT !.form = f] : f \in Forms}
    \cup {[Req("POST /admin/edit") EXCEPT !.qid = q, !.form = f] : q \in QuestionIds, f \in Forms}
    \cup {[Req("POST /admin/delete") EXCEPT !.qid = q] : q \in QuestionIds}

ReadRequests ==
    {Req("GET /"), Req("GET /admin/add")}
    \cup {[Req("GET /admin/edit") EXCEPT !.qid = q] : q \in QuestionIds}
    \cup {[Req(r) EXCEPT !.tag = t, !.section = sec, !.search = w] :
            r \in {"GET /quiz", "GET /admin"}, t \in TagFilters, sec \in SectionFilters,
            w \in SearchFilters}
    \cup {[Req("POST /quiz") EXCEPT !.body = b] : b \in QuizBodies}

\* ------------------------------------------------------------- actions

Init ==
    /\ impl \in {"main", "app"}
    /\ questions = [id \in {} |-> NULL]
    /\ seq = 0
    /\ assigned = <<>>
    /\ pending = NoRequest
    /\ response = NoResponse
    /\ conns = NoConns
    /\ workers = <<>>
    /\ updates = <<>>

\* The client sends a request; the server reads its body.
SendIn(requests) ==
    /\ pending = NoRequest /\ response = NoResponse
    /\ \E r \in requests :
          /\ r.route = "POST /admin/add" => seq < MaxId
          /\ pending' = r
    /\ UNCHANGED <<impl, questions, seq, assigned, response, conns, race_vars>>

\* The client takes the response; it may then send its next request.
Receive ==
    /\ pending = NoRequest /\ response # NoResponse
    /\ response' = NoResponse
    /\ conns' = NoConns
    /\ UNCHANGED <<impl, questions, seq, assigned, pending, race_vars>>

\* The administrator's browser posts a form or a delete.
SendWrite == SendIn(WriteRequests)

\* A visitor's browser asks for a page or submits a quiz.
SendRead == SendIn(ReadRequests)

\* The response goes out and the request is over.
Reply(resp) == response' = resp /\ pending' = NoRequest /\ UNCHANGED <<impl, race_vars>>

\* main.py, `with get_db() as conn:` run `scopes` times by a handler: get_db
\* connects anew on every call; leaving the block commits (or rolls back after
\* an exception) and closes nothing, and no handler calls conn.close().
with_get_db(scopes) == conns' = [opened |-> scopes, closed |-> 0]

\* app.py: get_db connects once per application context, on first use, and
\* close_connection closes that connection at teardown.
close_connection(used) ==
    LET db == IF used THEN 1 ELSE 0
    IN  conns' = [opened |-> db, closed |-> db]

ReadOnly == UNCHANGED <<questions, seq, assigned>>

\* INSERT INTO questions (...) VALUES (...); commit: the key is assigned here.
Insert(columns) ==
    LET id == NextRowId(questions, seq)
    IN  /\ questions' = [i \in DOMAIN questions \cup {id} |->
                            IF i = id THEN [id |-> id] @@ columns ELSE questions[i]]
        /\ seq' = id
        /\ assigned' = Append(assigned, id)

\* An UPDATE that leaves the section column out of its SET list.
UpdateRowKeepingSection(table, qid, columns) ==
    [i \in DOMAIN table |->
        IF i = qid THEN [id |-> table[i].id]
                        @@ [columns EXCEPT !.section = table[i].section]
        ELSE table[i]]

\* An UPDATE written as INSERT OR REPLACE: it stores the row when none has
\* the id.
UpdateRowOrInsert(table, qid, columns) ==
    [i \in DOMAIN table \cup {qid} |->
        IF i = qid THEN [id |-> qid] @@ columns ELSE table[i]]

\* The table after UPDATE questions SET question=?, ..., section=? WHERE id=?:
\* every column but id is set, in the rows the WHERE clause selects.
UpdateRow(table, qid, columns) ==
    [i \in DOMAIN table |->
        IF i = qid THEN [id |-> table[i].id] @@ columns ELSE table[i]]

\* The table after DELETE FROM questions WHERE id=?
DeleteRow(table, qid) == [i \in DOMAIN table \ {qid} |-> table[i]]

\* UPDATE questions SET ... WHERE id = ?; commit
Update(qid, columns) ==
    /\ questions' = UpdateRow(questions, qid, columns)
    /\ UNCHANGED <<seq, assigned>>

\* DELETE FROM questions WHERE id = ?; commit
Delete(qid) ==
    /\ questions' = DeleteRow(questions, qid)
    /\ UNCHANGED <<seq, assigned>>

\* --- main.py

home ==
    /\ impl = "main" /\ pending.route = "GET /"
    /\ with_get_db(1)
    /\ Reply([NoResponse EXCEPT !.route = "GET /", !.status = 200, !.template = "home.html",
                                !.sections = gather_sections_metadata(questions),
                                !.total = Cardinality(DOMAIN questions)])
    /\ ReadOnly

\* The context both list pages build.
MainListing(route, template) ==
    LET tag_filter == strip(pending.tag)
        section_filter == strip(pending.section)
        search_filter == strip(pending.search)
        questions_raw == MainSelect(questions, section_filter, tag_filter, search_filter)
    IN  [NoResponse EXCEPT
            !.route = route, !.status = 200, !.template = template,
            !.questions = [i \in DOMAIN questions_raw |-> enrich_question_row(questions_raw[i])],
            !.tag_options = build_tag_options(MainTagsUnique(questions, section_filter)),
            !.selected_tag = tag_filter, !.selected_section = section_filter,
            !.search = search_filter]

quiz ==
    /\ impl = "main" /\ pending.route = "GET /quiz"
    /\ with_get_db(1)
    /\ Reply(MainListing("GET /quiz", "quiz.html"))
    /\ ReadOnly

submit_quiz ==
    /\ impl = "main" /\ pending.route = "POST /quiz"
    /\ LET answers == MainAnswers(parse_qs(pending.body), <<>>)
       IN  IF answers = <<>>
           THEN Reply(Redirect("POST /quiz", "/quiz", "")) /\ with_get_db(0)
           ELSE Reply(Graded(questions, answers)) /\ with_get_db(1)
    /\ ReadOnly

admin ==
    /\ impl = "main" /\ pending.route = "GET /admin"
    /\ with_get_db(1)
    /\ Reply(MainListing("GET /admin", "admin.html"))
    /\ ReadOnly

add_question_get ==
    /\ impl = "main" /\ pending.route = "GET /admin/add"
    /\ with_get_db(1)
    /\ Reply([NoResponse EXCEPT !.route = "GET /admin/add", !.status = 200,
                                !.template = "add_edit.html"])
    /\ ReadOnly

add_question_post ==
    /\ impl = "main" /\ pending.route = "POST /admin/add"
    /\ with_get_db(1)
    /\ LET checked == validate_question_payload(parse_form_body(pending.form))
       IN  IF checked.errors # <<>>
           THEN /\ Reply([NoResponse EXCEPT !.route = "POST /admin/add", !.status = 400,
                                            !.template = "add_edit.html",
                                            !.form_errors = checked.errors])
                /\ ReadOnly
           ELSE /\ Insert(MainColumns(checked.payload))
                /\ Reply(Redirect("POST /admin/add", "/admin", "success"))

edit_question_get ==
    /\ impl = "main" /\ pending.route = "GET /admin/edit"
    /\ with_get_db(IF pending.qid \in DOMAIN questions THEN 2 ELSE 1)
    /\ IF pending.qid \notin DOMAIN questions
       THEN Reply(Redirect("GET /admin/edit", "/admin", "error"))
       ELSE Reply([NoResponse EXCEPT !.route = "GET /admin/edit", !.status = 200,
                                     !.template = "add_edit.html",
                                     !.question_id = questions[pending.qid].id])
    /\ ReadOnly

edit_question_post ==
    /\ impl = "main" /\ pending.route = "POST /admin/edit"
    /\ with_get_db(1)
    /\ LET checked == validate_question_payload(parse_form_body(pending.form))
       IN  IF checked.errors # <<>>
           THEN /\ Reply([NoResponse EXCEPT !.route = "POST /admin/edit", !.status = 400,
                                            !.template = "add_edit.html",
                                            !.form_errors = checked.errors,
                                            !.question_id = pending.qid])
                /\ ReadOnly
           ELSE /\ Update(pending.qid, MainColumns(checked.payload))
                /\ Reply(Redirect("POST /admin/edit", "/admin", "success"))

\* delete_question answering a missing id with error feedback.
delete_question_checked ==
    /\ impl = "main" /\ pending.route = "POST /admin/delete"
    /\ with_get_db(1)
    /\ Delete(pending.qid)
    /\ Reply(Redirect("POST /admin/delete", "/admin",
                      IF pending.qid \in DOMAIN questions THEN "success" ELSE "error"))

delete_question ==
    /\ impl = "main" /\ pending.route = "POST /admin/delete"
    /\ with_get_db(1)
    /\ Delete(pending.qid)
    /\ Reply(Redirect("POST /admin/delete", "/admin", "success"))

\* --- app.py

flask_index ==
    /\ impl = "app" /\ pending.route = "GET /"
    /\ close_connection(FALSE)
    /\ Reply(Redirect("GET /", "/quiz", ""))
    /\ ReadOnly

\* quiz(): POST grades, GET lists.
flask_quiz ==
    /\ impl = "app" /\ pending.route \in {"GET /quiz", "POST /quiz"}
    /\ close_connection(TRUE)
    /\ IF pending.route = "POST /quiz"
       THEN Reply(Graded(questions, FlaskAnswers(FlaskFormItems(pending.body), <<>>)))
       ELSE LET tag_filter == strip(pending.tag)
            IN  Reply([NoResponse EXCEPT
                          !.route = "GET /quiz", !.status = 200, !.template = "quiz.html",
                          !.questions = FlaskSelect(questions, tag_filter),
                          !.tags = FlaskTagsUnique(questions),
                          !.selected_tag = tag_filter])
    /\ ReadOnly

flask_admin ==
    /\ impl = "app" /\ pending.route = "GET /admin"
    /\ close_connection(TRUE)
    /\ Reply([NoResponse EXCEPT !.route = "GET /admin", !.status = 200,
                                !.template = "admin.html",
                                !.questions = RowsById(questions, DOMAIN questions)])
    /\ ReadOnly

\* add_question(): POST inserts or flashes an error and falls through to the form.
flask_add_question ==
    /\ impl = "app" /\ pending.route \in {"GET /admin/add", "POST /admin/add"}
    /\ LET fields == FlaskFields(pending.form)
       IN  IF pending.route = "POST /admin/add" /\ FlaskComplete(fields)
           THEN /\ close_connection(TRUE)
                /\ Insert(FlaskColumns(fields))
                /\ Reply(Redirect("POST /admin/add", "/admin", "success"))
           ELSE /\ Reply([NoResponse EXCEPT
                             !.route = pending.route, !.status = 200,
                             !.template = "add_edit.html",
                             !.category = IF pending.route = "POST /admin/add"
                                          THEN "error" ELSE ""])
                /\ close_connection(FALSE)
                /\ ReadOnly

\* edit_question(qid): the row is looked up first, for GET and POST alike.
flask_edit_question ==
    /\ impl = "app" /\ pending.route \in {"GET /admin/edit", "POST /admin/edit"}
    /\ close_connection(TRUE)
    /\ LET fields == FlaskFields(pending.form)
       IN  IF pending.qid \notin DOMAIN questions
           THEN /\ Reply(Redirect(pending.route, "/admin", "error"))
                /\ ReadOnly
           ELSE IF pending.route = "POST /admin/edit" /\ FlaskComplete(fields)
           THEN /\ Update(pending.qid, FlaskColumns(fields))
                /\ Reply(Redirect("POST /admin/edit", "/admin", "success"))
           ELSE /\ Reply([NoResponse EXCEPT
                             !.route = pending.route, !.status = 200,
                             !.template = "add_edit.html",
                             !.category = IF pending.route = "POST /admin/edit"
                                          THEN "error" ELSE "",
                             !.question_id = questions[pending.qid].id])
                /\ ReadOnly

flask_delete_question ==
    /\ impl = "app" /\ pending.route = "POST /admin/delete"
    /\ close_connection(TRUE)
    /\ Delete(pending.qid)
    /\ Reply(Redirect("POST /admin/delete", "/admin", "success"))

Handle ==
    \/ home \/ quiz \/ submit_quiz \/ admin \/ add_question_get \/ add_question_post
    \/ edit_question_get \/ edit_question_post \/ delete_question
    \/ flask_index \/ flask_quiz \/ flask_admin \/ flask_add_question
    \/ flask_edit_question \/ flask_delete_question

Next == SendWrite \/ SendRead \/ Handle \/ Receive

Spec == Init /\ [][Next]_vars

\* ------------------------------------------------ connections and errors

\* The handler of the request in flight runs SQL on a connection.
RunsSql ==
    IF impl = "main"
    THEN pending.route = "POST /quiz" => MainAnswers(parse_qs(pending.body), <<>>) # <<>>
    ELSE /\ pending.route \notin {"GET /", "GET /admin/add"}
         /\ pending.route = "POST /admin/add" => FlaskComplete(FlaskFields(pending.form))

\* conn.execute raises sqlite3.Error inside the handler (the database file is
\* locked or cannot be read): main.py's with block rolls back and lets the
\* exception through, app.py's teardown still runs; the answer is a 500.
statement_raises ==
    /\ pending.route \notin {"none", "build_tag_options"} /\ RunsSql
    /\ response' = [NoResponse EXCEPT !.route = pending.route, !.status = 500]
    /\ pending' = NoRequest
    /\ IF impl = "main" THEN with_get_db(1) ELSE close_connection(TRUE)
    /\ UNCHANGED <<impl, questions, seq, assigned, race_vars>>

\* The Python runtime finalises a sqlite3.Connection that nothing refers to any
\* more, which closes it; when it does so is up to the runtime.
finalize_connection ==
    /\ pending = NoRequest /\ conns.closed < conns.opened
    /\ conns' = [conns EXCEPT !.closed = @ + 1]
    /\ UNCHANGED <<impl, questions, seq, assigned, pending, response, race_vars>>

NextConn == Next \/ statement_raises \/ finalize_connection

SpecConn == Init /\ [][NextConn]_vars

\* ------------------------------------------- concurrent write requests

\* main.py served by several worker processes on one database file: two
\* POST /admin/edit/{qid} and one POST /admin/delete/{qid} for the same stored
\* id, each worker at its own statement.

\* The form the stored question was created from.
StoredForm ==
    [question |-> <<"p">>, option_a |-> <<"a">>, option_b |-> <<"b">>,
     option_c |-> <<"c">>, option_d |-> <<"d">>, correct_option |-> <<"C">>,
     tags |-> <<"o">>, section |-> <<"r">>]

\* The table after that create.
StoredTable ==
    [id \in {NextRowId(<<>>, 0)} |->
        [id |-> id]
        @@ MainColumns(validate_question_payload(parse_form_body(StoredForm)).payload)]

\* The forms of the two edits: two valid ones that differ in every field and
\* one that validation rejects.
RaceForms ==
    { [question |-> <<" ", "q">>, option_a |-> <<"x">>, option_b |-> <<"x">>,
       option_c |-> <<"x">>, option_d |-> <<"x">>, correct_option |-> <<"b">>,
       tags |-> <<" ", "t", ",", ",", "t", ",", " ", "u">>, section |-> <<"s", " ">>],
      [question |-> <<"k">>, option_a |-> <<"y">>, option_b |-> <<"y">>,
       option_c |-> <<"y">>, option_d |-> <<"y">>, correct_option |-> <<"a">>,
       tags |-> <<"w">>, section |-> <<"v">>],
      [question |-> <<" ">>, option_a |-> <<"z">>, option_b |-> <<"z">>,
       option_c |-> <<"z">>, option_d |-> <<"z">>, correct_option |-> <<"D">>,
       tags |-> <<>>, section |-> <<"n">>] }

\* A worker that has taken a request and not yet run its handler.
Worker(route, qid, form) ==
    [route |-> route, qid |-> qid, form |-> form, pc |-> "received",
     errors |-> <<>>, payload |-> EmptyForm, txn |-> <<>>, status |-> 0, category |-> ""]

InitRace ==
    /\ impl = "main"
    /\ questions = StoredTable
    /\ seq = Max(DOMAIN StoredTable)
    /\ assigned = <<Max(DOMAIN StoredTable)>>
    /\ pending = NoRequest
    /\ response = NoResponse
    /\ conns = NoConns
    /\ workers \in {<<Worker("POST /admin/edit", q, f1), Worker("POST /admin/edit", q, f2),
                      Worker("POST /admin/delete", q, EmptyForm)>> :
                        q \in DOMAIN StoredTable, f1 \in RaceForms, f2 \in RaceForms}
    /\ updates = <<>>

\* What a step of one worker leaves alone.
WorkerFrame == UNCHANGED <<impl, seq, assigned, pending, response, conns>>

\* SQLite lets one connection at a time hold uncommitted changes: another
\* writer's statement waits (the busy timeout) until the holder has committed.
WriteLockFree == \A w \in DOMAIN workers : workers[w].pc # "uncommitted"

\* edit_question_post: await request.body(), parse_form_body,
\* validate_question_payload.
edit_read_body(w) ==
    /\ workers[w].route = "POST /admin/edit" /\ workers[w].pc = "received"
    /\ LET checked == validate_question_payload(parse_form_body(workers[w].form))
       IN  workers' = [workers EXCEPT ![w].pc = "validated",
                                      ![w].errors = checked.errors,
                                      ![w].payload = checked.payload]
    /\ UNCHANGED <<questions, updates>> /\ WorkerFrame

\* edit_question_post: with get_db() as conn; get_section_choices(conn);
\* if errors: return the form with status 400.
edit_enter_scope(w) ==
    /\ workers[w].route = "POST /admin/edit" /\ workers[w].pc = "validated"
    /\ workers' = IF workers[w].errors # <<>>
                  THEN [workers EXCEPT ![w].pc = "done", ![w].status = 400]
                  ELSE [workers EXCEPT ![w].pc = "in_scope"]
    /\ UNCHANGED <<questions, updates>> /\ WorkerFrame

\* edit_question_post: conn.execute("UPDATE ...") in the connection's own
\* transaction; there is no version or conflict check before it.
edit_execute(w) ==
    /\ workers[w].route = "POST /admin/edit" /\ workers[w].pc = "in_scope"
    /\ WriteLockFree
    /\ workers' = [workers EXCEPT
                      ![w].pc = "uncommitted",
                      ![w].txn = UpdateRow(questions, workers[w].qid,
                                           MainColumns(workers[w].payload))]
    /\ updates' = Append(updates, w)
    /\ UNCHANGED questions /\ WorkerFrame

\* delete_question: conn.execute("DELETE ...")
delete_execute(w) ==
    /\ workers[w].route = "POST /admin/delete" /\ workers[w].pc = "received"
    /\ WriteLockFree
    /\ workers' = [workers EXCEPT ![w].pc = "uncommitted",
                                  ![w].txn = DeleteRow(questions, workers[w].qid)]
    /\ UNCHANGED <<questions, updates>> /\ WorkerFrame

\* conn.commit(): the worker's change becomes the stored table.
commit(w) ==
    /\ workers[w].pc = "uncommitted"
    /\ questions' = workers[w].txn
    /\ workers' = [workers EXCEPT ![w].pc = "committed"]
    /\ UNCHANGED updates /\ WorkerFrame

\* return RedirectResponse(admin_url + "...&category=success", 303)
return_redirect(w) ==
    /\ workers[w].pc = "committed"
    /\ workers' = [workers EXCEPT ![w].pc = "done", ![w].status = 303,
                                  ![w].category = "success"]
    /\ UNCHANGED <<questions, updates>> /\ WorkerFrame

NextRace ==
    \/ \E w \in DOMAIN workers : edit_read_body(w)
    \/ \E w \in DOMAIN workers : edit_enter_scope(w)
    \/ \E w \in DOMAIN workers : edit_execute(w)
    \/ \E w \in DOMAIN workers : delete_execute(w)
    \/ \E w \in DOMAIN workers : commit(w)
    \/ \E w \in DOMAIN workers : return_redirect(w)

SpecRace == InitRace /\ [][NextRace]_vars

\* ----------------------------------------------- get_section_choices alone

\* SELECT DISTINCT section FROM questions
\*   WHERE section IS NOT NULL AND trim(section) <> ''
\* as the set of its rows (trim takes spaces off).
SelectDistinctSection(table) ==
    {table[id].section : id \in {i \in DOMAIN table :
                                    /\ table[i].section # NULL
                                    /\ \E k \in DOMAIN table[i].section :
                                          table[i].section[k] # " "}}

\* The query has no ORDER BY: SQLite may return its rows in any order.
RowOrders(rows) == {o \in [1..Cardinality(rows) -> rows] : Range(o) = rows}

\* get_section_choices, given the rows cur.fetchall() returned: the defaults,
\* then the fetched names, each appended unless it was seen before.
get_section_choices(fetched) ==
    LET existing == SelectSeq(fetched, LAMBDA name : name # <<>>)
    IN  Dedup(DEFAULT_SECTIONS \o existing, {})

\* The section column of the stored questions: NULL in a row that is older
\* than the column, else what validation let through (trimmed, not blank).
SectionUniverse == {NULL, DEFAULT_SECTIONS[1], <<"b">>, <<"z">>}

\* The tables of up to MaxId questions over those sections.
SectionTables ==
    UNION {{[id \in 1..n |-> [StoredTable[1] EXCEPT !.id = id, !.section = col[id]]] :
               col \in [1..n -> SectionUniverse]} : n \in 0..MaxId}

InitSections ==
    /\ impl = "main"
    /\ questions \in SectionTables
    /\ seq = Max(DOMAIN questions \cup {0})
    /\ assigned = [i \in DOMAIN questions |-> i]
    /\ pending = Req("get_section_choices")
    /\ response = NoResponse
    /\ conns = NoConns
    /\ workers = <<>>
    /\ updates = <<>>

\* One call of get_section_choices(conn) on the stored table.
CallGetSectionChoices ==
    /\ pending.route = "get_section_choices" /\ response = NoResponse
    /\ \E fetched \in RowOrders(SelectDistinctSection(questions)) :
          response' = [NoResponse EXCEPT !.route = "get_section_choices",
                                         !.sections = get_section_choices(fetched)]
    /\ UNCHANGED <<impl, questions, seq, assigned, pending, conns, race_vars>>

NextSections == CallGetSectionChoices

SpecSections == InitSections /\ [][NextSections]_vars

\* ------------------------------------------- build_tag_options alone

\* The tag paths build_tag_options is called with: the three of the documented
\* scenario (U6570 U5B66 / U4EE3 U6570, U6570 U5B66 / U51E0 U4F55, U65E5 U8BED),
\* and paths with shared prefixes, blank segments and padding.
TagUniverse ==
    { <<"U6570", "U5B66", "/", "U4EE3", "U6570">>,
      <<"U6570", "U5B66", "/", "U51E0", "U4F55">>,
      <<"U65E5", "U8BED">>,
      <<"a">>, <<"a", "/", "b">>, <<"a", "b">>,
      <<" ", "a", " ", "/", "/", " ", "B", " ">>,
      <<"/">> }

TagLists == UNION {[1..n -> TagUniverse] : n \in 0..MaxTags}

InitTags ==
    /\ impl = "main"
    /\ questions = [id \in {} |-> NULL]
    /\ seq = 0
    /\ assigned = <<>>
    /\ pending \in {[Req("build_tag_options") EXCEPT !.tags = l] : l \in TagLists}
    /\ response = NoResponse
    /\ conns = NoConns
    /\ workers = <<>>
    /\ updates = <<>>

\* One call of build_tag_options(pending.tags); the argument stays in pending.
CallBuildTagOptions ==
    /\ pending.route = "build_tag_options" /\ response = NoResponse
    /\ response' = [NoResponse EXCEPT !.route = "build_tag_options",
                                      !.tag_options = build_tag_options(pending.tags)]
    /\ UNCHANGED <<impl, questions, seq, assigned, pending, conns, race_vars>>

NextTags == CallBuildTagOptions

SpecTags == InitTags /\ [][NextTags]_vars

\* --------------------------------------------------------------- claims

\* What the claims say of text, stated apart from the code's own helpers.
Blank(s) == \A i \in DOMAIN s : s[i] \in Whitespace

\* s without the whitespace around it.
Trimmed(s) ==
    IF Blank(s) THEN <<>>
    ELSE LET inked == {i \in DOMAIN s : s[i] \notin Whitespace}
         IN  SubSeq(s, CHOOSE i \in inked : \A j \in inked : i <= j,
                       CHOOSE i \in inked : \A j \in inked : j <= i)

\* needle occurs in hay as a run of consecutive characters.
Contains(hay, needle) ==
    \E i \in 0..(Len(hay) - Len(needle)) : SubSeq(hay, i + 1, i + Len(needle)) = needle

\* The tags a write stores for the raw field: the trimmed, non-blank pieces
\* between commas, each kept at its first occurrence, joined with ", ".
ExpectedTags(raw) ==
    LET pieces == split(raw, ",")
        kept == {i \in DOMAIN pieces :
                    /\ ~Blank(pieces[i])
                    /\ \A j \in 1..(i - 1) : Trimmed(pieces[j]) # Trimmed(pieces[i])}
        Pick[n \in 0..Len(pieces)] ==
            IF n = 0 THEN <<>>
            ELSE IF n \in kept THEN Append(Pick[n - 1], Trimmed(pieces[n]))
            ELSE Pick[n - 1]
    IN  join(Pick[Len(pieces)], <<",", " ">>)

\* The record the documented policy stores for a form under `id`.
ExpectedRow(id, form) ==
    [id |-> id, question |-> Trimmed(form.question), option_a |-> Trimmed(form.option_a),
     option_b |-> Trimmed(form.option_b), option_c |-> Trimmed(form.option_c),
     option_d |-> Trimmed(form.option_d),
     correct_option |-> upper(Trimmed(form.correct_option)),
     tags |-> ExpectedTags(form.tags), section |-> Trimmed(form.section)]

\* The documented rejection policy of create and update.
PolicyRejects(form) ==
    \/ Blank(form.question)
    \/ Blank(form.option_a) \/ Blank(form.option_b)
    \/ Blank(form.option_c) \/ Blank(form.option_d)
    \/ upper(Trimmed(form.correct_option)) \notin {<<"A">>, <<"B">>, <<"C">>, <<"D">>}
    \/ Blank(form.section)

\* The handler of the request in flight answers in this step.
Answers(routes) == pending.route \in routes /\ pending' = NoRequest

\* C1: every stored question has correct_option equal to one of A, B, C, D,
\* whatever create, update and delete requests were served.
C1_CorrectOptionIsLabel ==
    \A id \in DOMAIN questions :
        questions[id].correct_option \in {<<"A">>, <<"B">>, <<"C">>, <<"D">>}

\* C2: main.py rejects a create or update exactly when the trimmed question, an
\* option or the section is blank or the uppercased correct_option is no label;
\* a rejected request answers 400 and leaves the table as it was; an accepted
\* create inserts the record and an accepted update of a stored id rewrites it.
C2_ValidationPolicy ==
    [][(impl = "main" /\ Answers({"POST /admin/add", "POST /admin/edit"})) =>
          IF PolicyRejects(pending.form)
          THEN response'.status = 400 /\ questions' = questions
          ELSE /\ response'.status # 400
               /\ pending.route = "POST /admin/add" =>
                     \E id \in DOMAIN questions' \ DOMAIN questions :
                         questions'[id] = ExpectedRow(id, pending.form)
               /\ (pending.route = "POST /admin/edit" /\ pending.qid \in DOMAIN questions) =>
                     questions'[pending.qid] = ExpectedRow(pending.qid, pending.form)]_vars

\* A create with a blank option_c alone was rejected with the options error.
C2_Witness ==
    /\ impl = "main" /\ response.route = "POST /admin/add"
    /\ response.status = 400 /\ response.form_errors = <<"options">>

\* C3: an update of an id that is not stored (with a payload validation lets
\* through) changes no row and answers with a redirect to the admin list
\* carrying error feedback, never success feedback.
C3_UnknownIdIsAnError ==
    [][(Answers({"POST /admin/edit"}) /\ pending.qid \notin DOMAIN questions
            /\ ~PolicyRejects(pending.form)) =>
          /\ questions' = questions
          /\ response'.status = 303 /\ response'.location = "/admin"
          /\ response'.category = "error"]_vars

\* The ids the fields of a quiz body name, as the serving application reads
\* them: main.py drops a field with a blank value, app.py keeps it.
SubmittedIds(body) ==
    {SubSeq(body[i][1], Len(QUESTION_PREFIX) + 1, Len(body[i][1])) :
        i \in {j \in DOMAIN body : /\ startswith(body[j][1], QUESTION_PREFIX)
                                   /\ impl = "main" => body[j][2] # <<>>}}

\* The stored ids a quiz body locates.
LocatedIds(body) ==
    {id \in DOMAIN questions : \E k \in SubmittedIds(body) : SqlNumeric(k) = id}

\* C4: a graded submission has total = the number of stored questions its ids
\* locate, 0 <= correct <= total, and score = correct / total * 100 to the
\* nearest hundredth (0 when total = 0); score is held in hundredths.
C4_Scoring ==
    [][(Answers({"POST /quiz"}) /\ response'.template = "result.html") =>
          /\ response'.total = Cardinality(LocatedIds(pending.body))
          /\ 0 <= response'.correct /\ response'.correct <= response'.total
          /\ response'.total = 0 => response'.score = 0
          /\ response'.total > 0 =>
                LET d == response'.score * response'.total - response'.correct * 10000
                IN  2 * d <= response'.total /\ -2 * d <= response'.total]_vars

\* Three questions were located, two answered right: 66.67 percent.
C4_Witness ==
    /\ response.template = "result.html"
    /\ response.total = 3 /\ response.correct = 2 /\ response.score = 6667

\* C5: a row keeps the id it was inserted under, the ids successive creates
\* assign are strictly increasing, and so no id is ever assigned twice.
C5_IdsNeverReused ==
    /\ \A id \in DOMAIN questions : questions[id].id = id /\ id \in Range(assigned)
    /\ \A i, j \in DOMAIN assigned : i < j => assigned[i] < assigned[j]

\* The last request was a create served when the only row ever inserted, the
\* one with the largest id, had been deleted: it got a new id.
C5_Witness ==
    /\ response.route = "POST /admin/add" /\ response.category = "success"
    /\ assigned = <<1, 2>> /\ DOMAIN questions = {2}

\* C6: a delete always answers with the success redirect to the admin list and
\* leaves a table without the id; when the id was not stored the table is
\* unchanged, so a second delete of the same id changes nothing.
C6_DeleteIdempotent ==
    [][Answers({"POST /admin/delete"}) =>
          /\ response' = Redirect("POST /admin/delete", "/admin", "success")
          /\ pending.qid \notin DOMAIN questions'
          /\ pending.qid \notin DOMAIN questions => questions' = questions
          /\ \A id \in DOMAIN questions \ {pending.qid} :
                id \in DOMAIN questions' /\ questions'[id] = questions[id]]_vars

\* A delete was served on a table that never held a row.
C6_Witness ==
    /\ response = Redirect("POST /admin/delete", "/admin", "success")
    /\ seq = 0 /\ DOMAIN questions = {}

\* C7: after main.py accepts a create, the new row reads back as the normalized
\* payload: texts trimmed, correct_option uppercased, tags trimmed, blanks
\* dropped, deduplicated in first-seen order and joined with ", ".
C7_CreateRoundTrip ==
    [][(impl = "main" /\ Answers({"POST /admin/add"}) /\ response'.status = 303) =>
          \E id \in DOMAIN questions' \ DOMAIN questions :
              /\ questions'[id] = ExpectedRow(id, pending.form)
              /\ DOMAIN questions' = DOMAIN questions \cup {id}]_vars

\* A create with padded, repeated tags and a lowercase answer was stored.
C7_Witness ==
    /\ impl = "main" /\ response = Redirect("POST /admin/add", "/admin", "success")
    /\ \E id \in DOMAIN questions :
          /\ questions[id].tags = <<"t", ",", " ", "u">>
          /\ questions[id].correct_option = <<"B">>
          /\ questions[id].question = <<"q">> /\ questions[id].section = <<"s">>

\* C8: a list page filtered by a non-blank tag returns only questions that the
\* unfiltered page returns and whose tags contain the filter, case aside.
C8_TagFilterIsSubstring ==
    (response.route \in {"GET /quiz", "GET /admin"} /\ response.selected_tag # <<>>) =>
        \A i \in DOMAIN response.questions :
            /\ response.questions[i].id \in
                  {r.id : r \in Range(IF impl = "main"
                                      THEN MainSelect(questions, response.selected_section,
                                                      <<>>, response.search)
                                      ELSE FlaskSelect(questions, <<>>))}
            /\ response.questions[i].tags # NULL
            /\ Contains(lower(response.questions[i].tags), lower(response.selected_tag))

\* A quiz body carries no answer: no question- field with a non-empty value.
NoAnswer(body) ==
    \A i \in DOMAIN body : ~startswith(body[i][1], QUESTION_PREFIX) \/ body[i][2] = <<>>

\* C9: a quiz submission without an answer is answered with a redirect to
\* GET /quiz, never with a result page.
C9_EmptySubmissionRedirects ==
    [][(Answers({"POST /quiz"}) /\ NoAnswer(pending.body)) =>
          response' = Redirect("POST /quiz", "/quiz", "")]_vars

\* The parts of a tag path as the claim counts them: trimmed, blanks dropped.
Segments(tag) ==
    LET pieces == split(tag, "/")
        inked == SelectSeq(pieces, LAMBDA p : ~Blank(p))
    IN  [i \in DOMAIN inked |-> Trimmed(inked[i])]

\* Every non-empty prefix of the segments of every tag.
Prefixes(tags) ==
    UNION {{SubSeq(Segments(tags[i]), 1, k) : k \in 1..Len(Segments(tags[i]))} :
              i \in DOMAIN tags}

RECURSIVE PathLess(_, _)
\* Depth-first order with sorted siblings: a path before its extensions, and
\* otherwise by the first segment that differs.
PathLess(p, q) ==
    IF q = <<>> THEN FALSE
    ELSE IF p = <<>> THEN TRUE
    ELSE IF Head(p) = Head(q) THEN PathLess(Tail(p), Tail(q))
    ELSE StrLess(Head(p), Head(q))

\* The tags of the documented scenario.
ScenarioTags ==
    << <<"U6570", "U5B66", "/", "U4EE3", "U6570">>,
       <<"U6570", "U5B66", "/", "U51E0", "U4F55">>,
       <<"U65E5", "U8BED">> >>

\* C10: build_tag_options returns one entry per distinct non-empty prefix, with
\* value the joined prefix, label its last segment and level its length - 1,
\* in depth-first order with siblings ascending; the scenario gives the
\* levels 0, 1, 1, 0.
C10_TagOptions ==
    response.route = "build_tag_options" =>
        LET opts == response.tag_options
            want == Prefixes(pending.tags)
            path(i) == split(opts[i].value, "/")
        IN  /\ Len(opts) = Cardinality(want)
            /\ \A p \in want : \E i \in DOMAIN opts : opts[i].value = join(p, <<"/">>)
            /\ \A i \in DOMAIN opts :
                  /\ path(i) \in want
                  /\ opts[i].label = path(i)[Len(path(i))]
                  /\ opts[i].level = Len(path(i)) - 1
            /\ \A i, j \in DOMAIN opts : i < j => PathLess(path(i), path(j))
            /\ pending.tags = ScenarioTags =>
                  [i \in DOMAIN opts |-> opts[i].level] = <<0, 1, 1, 0>>

\* The scenario's call returned its four entries.
C10_Witness ==
    /\ response.route = "build_tag_options" /\ pending.tags = ScenarioTags
    /\ Len(response.tag_options) = 4
    /\ response.tag_options[2].value = <<"U6570", "U5B66", "/", "U4EE3", "U6570">>

\* A stored question satisfies the filters that are present, as the claim
\* words them: the section equal to the section filter, the tags containing
\* the tag filter, the search text contained in the question, an option or
\* the tags (letter case aside for both texts).
SatisfiesFilters(row, section_filter, tag_filter, search_filter) ==
    /\ section_filter # <<>> => row.section = section_filter
    /\ tag_filter # <<>> =>
          row.tags # NULL /\ Contains(lower(row.tags), lower(tag_filter))
    /\ search_filter # <<>> =>
          \E f \in {"question", "option_a", "option_b", "option_c", "option_d", "tags"} :
              row[f] # NULL /\ Contains(lower(row[f]), lower(search_filter))

\* The ids of the questions a list page shows, in the order it shows them.
ListedIds == [i \in DOMAIN response.questions |-> response.questions[i].id]

\* A list page of main.py shows exactly the stored questions in `want`, by
\* ascending id.
ListsExactly(want) ==
    /\ Range(ListedIds) = want
    /\ \A i, j \in DOMAIN ListedIds : i < j => ListedIds[i] < ListedIds[j]

\* C11: GET /quiz and GET /admin of main.py return exactly the stored
\* questions that satisfy every filter present (all of them when none is),
\* which is the intersection of the single-filter results, by ascending id.
C11_ListIsConjunctionOfFilters ==
    (impl = "main" /\ response.route \in {"GET /quiz", "GET /admin"}) =>
        ListsExactly({id \in DOMAIN questions :
                        SatisfiesFilters(questions[id], response.selected_section,
                                         response.selected_tag, response.search)})

\* The same statement for requests whose tag filter holds no LIKE wildcard:
\* there the lists are the filtered table.
C11_ListWithoutWildcards ==
    (/\ impl = "main" /\ response.route \in {"GET /quiz", "GET /admin"}
     /\ "%" \notin Range(response.selected_tag) /\ "_" \notin Range(response.selected_tag)) =>
        ListsExactly({id \in DOMAIN questions :
                        SatisfiesFilters(questions[id], response.selected_section,
                                         response.selected_tag, response.search)})

\* C12: when a request has been answered, on whichever path (a normal return,
\* the early return of a validation error, an exception), every connection it
\* opened has been closed.
C12_ConnectionsReleased ==
    (pending = NoRequest /\ response # NoResponse) => conns.closed = conns.opened

\* The part of C12 that app.py keeps: its teardown closes what get_db opened.
C12_FlaskReleases ==
    (impl = "app" /\ pending = NoRequest) => conns.closed = conns.opened

\* The workers that run a valid update.
ValidEditors ==
    {w \in DOMAIN workers : /\ workers[w].route = "POST /admin/edit"
                            /\ ~PolicyRejects(workers[w].form)}

\* The delete has not touched the table.
DeleteNotRun ==
    \A w \in DOMAIN workers :
        workers[w].route = "POST /admin/delete" => workers[w].pc = "received"

\* C13: with two valid concurrent updates of one stored id, the row is at every
\* moment the original one or one payload whole, never a mix; both updates end
\* with the success redirect; and when both have finished (no delete having
\* run) the row is the normalized payload of the update applied last.
C13_LastWriterWins ==
    Cardinality(ValidEditors) = 2 =>
        /\ \A id \in DOMAIN questions :
              \/ questions[id] = StoredTable[id]
              \/ \E w \in ValidEditors : questions[id] = ExpectedRow(id, workers[w].form)
        /\ \A w \in ValidEditors :
              workers[w].pc = "done" =>
                  workers[w].status = 303 /\ workers[w].category = "success"
        /\ (DeleteNotRun /\ \A w \in ValidEditors : workers[w].pc = "done") =>
              /\ Range(updates) = ValidEditors /\ Len(updates) = 2
              /\ \A id \in DOMAIN StoredTable :
                    /\ id \in DOMAIN questions
                    /\ questions[id] = ExpectedRow(id, workers[updates[Len(updates)]].form)

\* Two different valid updates have finished, the second worker's UPDATE was
\* applied first, and the row holds the first worker's payload.
C13_Witness ==
    /\ Cardinality(ValidEditors) = 2 /\ DeleteNotRun
    /\ workers[1].form # workers[2].form
    /\ workers[1].pc = "done" /\ workers[2].pc = "done"
    /\ updates = <<2, 1>>
    /\ \A id \in DOMAIN questions : questions[id] = ExpectedRow(id, workers[1].form)

\* In a race of updates with a delete of the same id, the question is gone
\* for good once the delete is committed.
RaceNeverResurrects ==
    \A w \in DOMAIN workers :
        (workers[w].route = "POST /admin/delete" /\ workers[w].pc \in {"committed", "done"}) =>
            workers[w].qid \notin DOMAIN questions

\* The stored section values that are not blank and not a default.
StoredOtherSections ==
    {questions[id].section : id \in {i \in DOMAIN questions :
                                        /\ questions[i].section # NULL
                                        /\ ~Blank(questions[i].section)}}
    \ Range(DEFAULT_SECTIONS)

\* C14: get_section_choices returns the four defaults in their fixed order,
\* then every distinct non-blank stored section that is no default, once each,
\* in sorted order.
C14_SectionChoicesSorted ==
    response.route = "get_section_choices" =>
        response.sections = DEFAULT_SECTIONS \o SortedSeq(StoredOtherSections)

\* What holds of the order: the defaults first, then the other stored
\* sections, each once, in some order.
C14_SectionChoicesInSomeOrder ==
    response.route = "get_section_choices" =>
        LET n == Len(DEFAULT_SECTIONS)
            rest == SubSeq(response.sections, n + 1, Len(response.sections))
        IN  /\ SubSeq(response.sections, 1, n) = DEFAULT_SECTIONS
            /\ Range(rest) = StoredOtherSections
            /\ Len(rest) = Cardinality(StoredOtherSections)

\* The fields of a quiz body whose id locates the stored question `id`, as the
\* serving application reads the body.
LocatingFields(body, id) ==
    {j \in DOMAIN body :
        /\ startswith(body[j][1], QUESTION_PREFIX)
        /\ impl = "main" => body[j][2] # <<>>
        /\ SqlNumeric(SubSeq(body[j][1], Len(QUESTION_PREFIX) + 1, Len(body[j][1]))) = id}

\* C15: in a graded submission every question counted in total carries as
\* user_answer the value of a field whose id located it, never a missing
\* value, also when the id is written as 01; and when the letter submitted for
\* it is the stored correct one it counts as correct.
C15_GradedAgainstSubmitted ==
    [][(Answers({"POST /quiz"}) /\ response'.template = "result.html") =>
          \A i \in DOMAIN response'.details :
              LET d == response'.details[i]
                  id == SqlNumeric(d.id)
                  fields == LocatingFields(pending.body, id)
              IN  /\ d.user_answer # None
                  /\ \E j \in fields : d.user_answer = pending.body[j][2]
                  /\ (\A j \in fields : pending.body[j][2] = questions[id].correct_option)
                        => d.is_correct]_vars

\* The same for submissions that write every id in canonical decimal form.
C15_GradedWhenCanonical ==
    [][(/\ Answers({"POST /quiz"}) /\ response'.template = "result.html"
        /\ \A j \in DOMAIN pending.body :
              pending.body[j][1] # QUESTION_PREFIX \o <<"0", "1">>) =>
          \A i \in DOMAIN response'.details :
              LET d == response'.details[i]
                  id == SqlNumeric(d.id)
                  fields == LocatingFields(pending.body, id)
              IN  /\ d.user_answer # None
                  /\ \E j \in fields : d.user_answer = pending.body[j][2]
                  /\ (\A j \in fields : pending.body[j][2] = questions[id].correct_option)
                        => d.is_correct]_vars

\* C16: an update changes no row other than the one with its id and leaves the
\* set of stored ids as it was (it never creates a row, so after a delete of
\* the same id the question stays deleted); a delete removes at most the row
\* with its id and changes no other row; the GET routes and POST /quiz leave
\* the table unchanged.
C16_FrameOfEachRoute ==
    [][/\ Answers({"POST /admin/edit"}) =>
             /\ DOMAIN questions' = DOMAIN questions
             /\ \A id \in DOMAIN questions \ {pending.qid} : questions'[id] = questions[id]
       /\ Answers({"POST /admin/delete"}) =>
             /\ DOMAIN questions \ {pending.qid} \subseteq DOMAIN questions'
             /\ DOMAIN questions' \subseteq DOMAIN questions
             /\ \A id \in DOMAIN questions' : questions'[id] = questions[id]
       /\ Answers({"GET /", "GET /quiz", "POST /quiz", "GET /admin", "GET /admin/add",
                   "GET /admin/edit"}) =>
             questions' = questions]_vars

\* An update was accepted while two questions were stored, and the two rows
\* differ afterwards: it rewrote one of them only.
C16_Witness ==
    /\ response = Redirect("POST /admin/edit", "/admin", "success")
    /\ DOMAIN questions = {1, 2}
    /\ questions[1].tags # questions[2].tags

=============================================================================
